---- MODULE Spec2Model ----
(***************************************************************************)
(* Model of the legal-document pipeline: PDF text extraction, text         *)
(* normalisation, section detection, chunking (documents/pdf_processor.py) *)
(* and the background task that runs it (documents/tasks.py,               *)
(* documents/views.py).                                                    *)
(*                                                                         *)
(* Text is modelled run-length encoded: a text is a sequence of tokens,    *)
(* each token [k, n] standing for n characters of one kind.  A section     *)
(* keyword is one token whose kind is its spelling.  Lengths are therefore *)
(* the real character counts and the program's 50 / 2000 thresholds are    *)
(* kept as they are.                                                       *)
(***************************************************************************)
EXTENDS Integers, Sequences, FiniteSets, TLC

VARIABLES
    mode,        \* which part of the program the behaviour exercises
    arg,         \* argument of the pure function under study
    ret,         \* the state of the call and its returned value
    libs,        \* module-level imports: [PyPDF2, pdfminer_extract_text]
    files,       \* file id -> what each backend yields for it
    processors,  \* PDFProcessor instances: id -> instance attributes
    inv,         \* process_pdf invocations: id -> locals of the call
    documents,   \* Document rows: id -> fields
    chunkRows,   \* DocumentChunk rows
    tasks        \* process_document_task executions: document id -> state

vars == <<mode, arg, ret, libs, files, processors, inv, documents, chunkRows, tasks>>

\* Python's None for an absent section label: a match of a section pattern is
\* never empty, so the empty text is free to stand for it
None == <<>>

-----------------------------------------------------------------------------
(* Tokens *)

Tok(k, n) == [k |-> k, n |-> n]

\* the element of a one-element set: The({e(x) : x \in {v}}) is e(v), with v
\* computed once however often e uses it
The(S) == CHOOSE x \in S : TRUE

SP == Tok("sp", 1)
DOT == Tok("dot", 1)
BANG == Tok("bang", 1)
HY == Tok("hy", 1)
LP == Tok("lp", 1)
RP == Tok("rp", 1)

KeywordKinds == {"Section", "section", "Article", "Chapter", "Part", "SectionSign"}

\* spellings of the section keywords ("SectionSign" is the one character U+00A7), with their character counts
KwLen(k) ==
    CASE k \in {"Section", "section", "Article", "Chapter"} -> 7
      [] k = "Part" -> 4
      [] k = "SectionSign" -> 1

Kw(k) == Tok(k, KwLen(k))


\* every kind of token: "low" lowercase letters, "up" other letters and underscore,
\* "num" digits, "sp" whitespace, "dot" a full stop, "bang" ! or ?, "hy" a hyphen,
\* "lp" and "rp" parentheses, "sym" any character outside the allow-list
AllKinds == {"low", "up", "num", "sp", "dot", "bang", "hy", "lp", "rp", "sym"} \cup KeywordKinds

\* \s
SpaceKinds == {"sp"}
NonSpaceKinds == AllKinds \ SpaceKinds
\* \w : letters, digits, underscore (the keywords other than the section sign are letters)
WordKinds == {"low", "up", "num", "Section", "section", "Article", "Chapter", "Part"}
\* \d
DigitKinds == {"num"}
\* [a-z0-9]
LowerAlnumKinds == {"low", "num", "section"}
\* [.!?]
TerminatorKinds == {"dot", "bang"}

IsSpace(t) == t.k \in SpaceKinds
IsWord(t) == t.k \in WordKinds
IsDigit(t) == t.k \in DigitKinds
IsTerminator(t) == t.k \in TerminatorKinds

RECURSIVE SumLen(_, _, _)
SumLen(text, i, acc) ==
    IF i > Len(text) THEN acc ELSE SumLen(text, i + 1, acc + text[i].n)

\* len(text)
TextLen(text) == SumLen(text, 1, 0)

RECURSIVE SkipWhile(_, _, _)
\* first index >= i whose token is not of a kind in K (Len+1 if none): the end of
\* a greedy run such as \s+ or \w+
SkipWhile(text, i, K) ==
    IF i <= Len(text) /\ text[i].k \in K THEN SkipWhile(text, i + 1, K) ELSE i

RECURSIVE SkipBack(_, _)
\* last index <= i whose token is not whitespace (0 if none)
SkipBack(text, i) ==
    IF i >= 1 /\ IsSpace(text[i]) THEN SkipBack(text, i - 1) ELSE i

\* str.strip()
Strip(text) ==
    LET a == SkipWhile(text, 1, SpaceKinds)
        b == SkipBack(text, Len(text))
    IN IF a > b THEN <<>> ELSE SubSeq(text, a, b)

RECURSIVE SplitWords(_, _, _)
\* str.split(): the maximal runs of non-whitespace
SplitWords(text, i, acc) ==
    LET a == SkipWhile(text, i, SpaceKinds)
        b == SkipWhile(text, a, NonSpaceKinds)
    IN IF a > Len(text) THEN acc
       ELSE SplitWords(text, b, Append(acc, SubSeq(text, a, b - 1)))

RECURSIVE SplitSentences(_, _, _, _)
\* re.split(r'(?<=[.!?])\s+', text)
SplitSentences(text, i, cur, acc) ==
    IF i > Len(text) THEN Append(acc, cur)
    ELSE IF IsSpace(text[i]) /\ i > 1 /\ IsTerminator(text[i - 1])
         THEN SplitSentences(text, SkipWhile(text, i, SpaceKinds), <<>>, Append(acc, cur))
         ELSE SplitSentences(text, i + 1, Append(cur, text[i]), acc)

-----------------------------------------------------------------------------
(* PDFProcessor.__init__ and chunk_text *)

min_chunk_length == 50
max_chunk_length == 2000

\* the attributes __init__ sets on a new instance
NewProcessor == [min_chunk_length |-> min_chunk_length,
                 max_chunk_length |-> max_chunk_length]

Chunk(text, page_number, section, chunk_index) ==
    [text |-> text, page_number |-> page_number, section |-> section,
     chunk_index |-> chunk_index]

\* the guarded append of a buffer to chunks, with the index it consumes
Flush(self, st, buf, page_number, section) ==
    IF TextLen(Strip(buf)) >= self.min_chunk_length
    THEN [st EXCEPT !.chunks = Append(@, Chunk(Strip(buf), page_number, section, st.chunk_index)),
                    !.chunk_index = @ + 1]
    ELSE st

\* does adding piece to a non-empty buffer go over the maximum
Overflows(self, buf, piece) ==
    buf # <<>> /\ TextLen(buf) + TextLen(piece) + 1 > self.max_chunk_length

RECURSIVE WordLoop(_, _, _, _, _, _, _)
\* the word-level fallback: st.current_chunk is left as the last temp_chunk
WordLoop(self, words, i, temp, st, page_number, section) ==
    IF i > Len(words) THEN [st EXCEPT !.current_chunk = temp]
    ELSE IF Overflows(self, temp, words[i])
         THEN The({ WordLoop(self, words, i + 1, words[i], flushed, page_number, section) :
                    flushed \in {Flush(self, st, temp, page_number, section)} })
         ELSE The({ WordLoop(self, words, i + 1, joined, st, page_number, section) :
                    joined \in {IF temp # <<>> THEN temp \o <<SP>> \o words[i]
                                 ELSE words[i]} })

\* a variant that starts the new buffer with the last word of the flushed one
AddSentence_overlap(self, st, sentence, page_number, section) ==
    IF Overflows(self, st.current_chunk, sentence)
    THEN [Flush(self, st, st.current_chunk, page_number, section)
             EXCEPT !.current_chunk =
                 The({ words[Len(words)] \o <<SP>> \o sentence :
                       words \in {SplitWords(st.current_chunk, 1, <<>>)} })]
    ELSE [st EXCEPT !.current_chunk =
             IF @ # <<>> THEN @ \o <<SP>> \o sentence ELSE sentence]

\* one iteration of the sentence loop
\* the sentence put into the buffer, after a flush if it does not fit
AddSentence(self, st, sentence, page_number, section) ==
    IF Overflows(self, st.current_chunk, sentence)
    THEN [Flush(self, st, st.current_chunk, page_number, section)
             EXCEPT !.current_chunk = sentence]
    ELSE [st EXCEPT !.current_chunk =
             IF @ # <<>> THEN @ \o <<SP>> \o sentence ELSE sentence]

SentenceStep(self, st, raw, page_number, section) ==
    The({ IF sentence = <<>> THEN st
          ELSE The({ IF TextLen(st1.current_chunk) > self.max_chunk_length
                     THEN The({ WordLoop(self, words, 1, <<>>, st1, page_number, section) :
                                words \in {SplitWords(st1.current_chunk, 1, <<>>)} })
                     ELSE st1 :
                     st1 \in {AddSentence(self, st, sentence, page_number, section)} }) :
          sentence \in {Strip(raw)} })

RECURSIVE SentenceLoop(_, _, _, _, _, _)
SentenceLoop(self, sentences, i, st, page_number, section) ==
    IF i > Len(sentences) THEN st
    ELSE The({ SentenceLoop(self, sentences, i + 1, next, page_number, section) :
               next \in {SentenceStep(self, st, sentences[i], page_number, section)} })

chunk_text(self, text, page_number, section) ==
    IF text = <<>> \/ TextLen(Strip(text)) < self.min_chunk_length THEN <<>>
    ELSE LET st0 == [chunks |-> <<>>, current_chunk |-> <<>>, chunk_index |-> 0]
         IN The({ IF st.current_chunk # <<>>
                  THEN Flush(self, st, st.current_chunk, page_number, section).chunks
                  ELSE st.chunks :
                  st \in { The({ SentenceLoop(self, sentences, 1, st0, page_number, section) :
                                 sentences \in {SplitSentences(text, 1, <<>>, <<>>)} }) } })

-----------------------------------------------------------------------------
(* preprocess_text and _fix_common_issues *)

RECURSIVE CollapseSpace(_, _, _)
\* re.sub(r'\s+', ' ', text): every maximal whitespace run becomes one space
CollapseSpace(text, i, acc) ==
    IF i > Len(text) THEN acc
    ELSE IF IsSpace(text[i])
         THEN CollapseSpace(text, SkipWhile(text, i, SpaceKinds), Append(acc, SP))
         ELSE CollapseSpace(text, i + 1, Append(acc, text[i]))

\* a variant of the allow-list that keeps the section sign
AllowedKinds_with_sign == WordKinds \cup SpaceKinds \cup {"dot", "hy", "lp", "rp", "SectionSign"}

\* the characters the allow-list [^\w\s\.\,\:\;\(\)\[\]\{\}\'\"\-...] keeps
AllowedKinds == WordKinds \cup SpaceKinds \cup {"dot", "hy", "lp", "rp"}

\* re.sub(<not allowed>, ' ', text): each such character becomes one space
ReplaceSpecial(text) ==
    [i \in 1..Len(text) |->
        IF text[i].k \in AllowedKinds THEN text[i] ELSE Tok("sp", text[i].n)]

\* end (exclusive) of \w+\s+\w+ starting at i, or 0
BrokenWordEnd(text, i) ==
    LET b == SkipWhile(text, i, WordKinds)
        c == SkipWhile(text, b, SpaceKinds)
        d == SkipWhile(text, c, WordKinds)
    IN IF b > i /\ c > b /\ d > c THEN d ELSE 0

RECURSIVE FixBrokenWords(_, _, _)
\* re.sub(r'(\w+)\s+(\w+)', lambda m: g1 + ' ' + g2 if both longer than 1 else m.group(0))
FixBrokenWords(text, i, acc) ==
    IF i > Len(text) THEN acc
    ELSE LET d == BrokenWordEnd(text, i)
             b == SkipWhile(text, i, WordKinds)
             c == SkipWhile(text, b, SpaceKinds)
             g1 == SubSeq(text, i, b - 1)
             g2 == SubSeq(text, c, d - 1)
         IN IF d = 0 THEN FixBrokenWords(text, i + 1, Append(acc, text[i]))
            ELSE IF TextLen(g1) > 1 /\ TextLen(g2) > 1
                 THEN FixBrokenWords(text, d, acc \o g1 \o <<SP>> \o g2)
                 ELSE FixBrokenWords(text, d, acc \o SubSeq(text, i, d - 1))

\* end (exclusive) of \w+-\s+\w+ starting at i, or 0
HyphenEnd(text, i) ==
    LET b == SkipWhile(text, i, WordKinds)
        c == SkipWhile(text, b + 1, SpaceKinds)
        d == SkipWhile(text, c, WordKinds)
    IN IF b > i /\ b <= Len(text) /\ text[b] = HY /\ c > b + 1 /\ d > c THEN d ELSE 0

RECURSIVE FixHyphens(_, _, _)
\* re.sub(r'(\w+)-\s+(\w+)', r'\1\2', text)
FixHyphens(text, i, acc) ==
    IF i > Len(text) THEN acc
    ELSE LET d == HyphenEnd(text, i)
             b == SkipWhile(text, i, WordKinds)
             c == SkipWhile(text, b + 1, SpaceKinds)
         IN IF d = 0 THEN FixHyphens(text, i + 1, Append(acc, text[i]))
            ELSE FixHyphens(text, d, acc \o SubSeq(text, i, b - 1) \o SubSeq(text, c, d - 1))

RECURSIVE NumberEnd(_, _)
\* end (exclusive) of the greedy (?:\.\d+)* starting at i
NumberEnd(text, i) ==
    IF i + 1 <= Len(text) /\ text[i] = DOT /\ IsDigit(text[i + 1])
    THEN NumberEnd(text, SkipWhile(text, i + 1, DigitKinds))
    ELSE i

\* end (exclusive) of <keyword>\s+(\d+(?:\.\d+)*) (\s* when minSpace = 0) starting
\* at i, the keyword being a token of a kind in kinds; 0 if there is no match at i
MarkerEnd(text, i, kinds, minSpace) ==
    LET c == SkipWhile(text, i + 1, SpaceKinds)
        d == SkipWhile(text, c, DigitKinds)
    IN IF text[i].k \in kinds /\ c >= i + 1 + minSpace /\ d > c
       THEN NumberEnd(text, d) ELSE 0

RECURSIVE FixSection(_, _, _)
\* re.sub(r'Section\s+(\d+(?:\.\d+)*)', r'Section \1', text)
FixSection(text, i, acc) ==
    IF i > Len(text) THEN acc
    ELSE LET e == MarkerEnd(text, i, {"Section"}, 1)
             c == SkipWhile(text, i + 1, SpaceKinds)
         IN IF e = 0 THEN FixSection(text, i + 1, Append(acc, text[i]))
            ELSE FixSection(text, e, acc \o <<Kw("Section"), SP>> \o SubSeq(text, c, e - 1))

\* end (exclusive) of \(([a-z0-9]+)\) starting at i, or 0
EnumeratorEnd(text, i) ==
    LET b == SkipWhile(text, i + 1, LowerAlnumKinds)
    IN IF text[i] = LP /\ b > i + 1 /\ b <= Len(text) /\ text[b] = RP THEN b + 1 ELSE 0

RECURSIVE FixEnumerators(_, _, _)
\* re.sub(r'\(([a-z0-9]+)\)', r'(\1)', text)
FixEnumerators(text, i, acc) ==
    IF i > Len(text) THEN acc
    ELSE LET e == EnumeratorEnd(text, i)
         IN IF e = 0 THEN FixEnumerators(text, i + 1, Append(acc, text[i]))
            ELSE FixEnumerators(text, e, acc \o <<LP>> \o SubSeq(text, i + 1, e - 2) \o <<RP>>)

\* the five substitutions, each on the result of the one before
fix_common_issues(text) ==
    The({ FixEnumerators(t4, 1, <<>>) :
          t4 \in { The({ FixSection(t3, 1, <<>>) :
          t3 \in { The({ CollapseSpace(t2, 1, <<>>) :
          t2 \in { The({ FixHyphens(t1, 1, <<>>) :
          t1 \in { The({ FixBrokenWords(t0, 1, <<>>) : t0 \in {text} }) } }) } }) } }) } })

\* collapse, replace, collapse, strip, repair, each on the result of the one before
preprocess_text(text) ==
    IF text = <<>> THEN <<>>
    ELSE The({ fix_common_issues(t4) :
               t4 \in { The({ Strip(t3) :
               t3 \in { The({ CollapseSpace(t2, 1, <<>>) :
               t2 \in { The({ ReplaceSpecial(t1) :
               t1 \in { The({ CollapseSpace(t0, 1, <<>>) : t0 \in {text} }) } }) } }) } }) } })

-----------------------------------------------------------------------------
(* extract_sections *)

\* variant: the patterns tried in the order Article, Section, ...
section_patterns_article_first ==
    << [kinds |-> {"Article"}, minSpace |-> 1],
       [kinds |-> {"Section", "section"}, minSpace |-> 1],
       [kinds |-> {"SectionSign"}, minSpace |-> 0],
       [kinds |-> {"Chapter"}, minSpace |-> 1],
       [kinds |-> {"Part"}, minSpace |-> 1] >>

\* section_patterns, in the order of the list; re.IGNORECASE makes the keyword
\* match in either case
section_patterns ==
    << [kinds |-> {"Section", "section"}, minSpace |-> 1],
       [kinds |-> {"SectionSign"}, minSpace |-> 0],
       [kinds |-> {"Article"}, minSpace |-> 1],
       [kinds |-> {"Chapter"}, minSpace |-> 1],
       [kinds |-> {"Part"}, minSpace |-> 1] >>

\* the start positions at which the pattern matches
MatchStarts(text, pattern) ==
    {i \in 1..Len(text) : MarkerEnd(text, i, pattern.kinds, pattern.minSpace) # 0}

\* re.search(pattern, text, re.IGNORECASE).group(0): the leftmost match, or None
SearchPattern(text, pattern) ==
    LET starts == MatchStarts(text, pattern)
        i == CHOOSE s \in starts : \A o \in starts : s <= o
    IN IF starts = {} THEN None
       ELSE SubSeq(text, i, MarkerEnd(text, i, pattern.kinds, pattern.minSpace) - 1)

RECURSIVE FirstPattern(_, _, _)
\* the for loop over the patterns: the first pattern that matches decides
FirstPattern(text, patterns, p) ==
    IF p > Len(patterns) THEN None
    ELSE IF SearchPattern(text, patterns[p]) # None THEN SearchPattern(text, patterns[p])
         ELSE FirstPattern(text, patterns, p + 1)

extract_sections(text, page_number) == FirstPattern(text, section_patterns, 1)

-----------------------------------------------------------------------------
(* extract_text_from_pdf and the two backends *)

\* What a backend finds in a file: [raises, pages].  raises: opening or parsing
\* the file raises.  pages: per page [err, text]; err: extracting that page raises.

RECURSIVE PyPDF2Pages_renumbered(_, _, _)
\* variant: a kept page is numbered by its place among the kept pages
PyPDF2Pages_renumbered(pages, page_num, pages_text) ==
    IF page_num >= Len(pages) THEN pages_text
    ELSE LET page == pages[page_num + 1]
         IN IF ~page.err /\ Strip(page.text) # <<>>
            THEN PyPDF2Pages_renumbered(pages, page_num + 1,
                     Append(pages_text, [text |-> page.text,
                                         page_number |-> Len(pages_text) + 1]))
            ELSE PyPDF2Pages_renumbered(pages, page_num + 1, pages_text)

RECURSIVE PyPDF2Pages(_, _, _)
\* the loop of _extract_with_pypdf2 over page_num in range(num_pages)
PyPDF2Pages(pages, page_num, pages_text) ==
    IF page_num >= Len(pages) THEN pages_text
    ELSE LET page == pages[page_num + 1]
         IN IF ~page.err /\ Strip(page.text) # <<>>
            THEN PyPDF2Pages(pages, page_num + 1,
                     Append(pages_text, [text |-> page.text, page_number |-> page_num + 1]))
            ELSE PyPDF2Pages(pages, page_num + 1, pages_text)

extract_with_pypdf2(found) == PyPDF2Pages(found.pages, 0, <<>>)

RECURSIVE PdfminerPages(_, _, _)
\* the loop of _extract_with_pdfminer over enumerate(pages, start=1)
PdfminerPages(pages, page_num, pages_text) ==
    IF page_num > Len(pages) THEN pages_text
    ELSE LET page == pages[page_num]
         IN IF ~page.err /\ Strip(page.text) # <<>>
            THEN PdfminerPages(pages, page_num + 1,
                     Append(pages_text, [text |-> page.text, page_number |-> page_num]))
            ELSE PdfminerPages(pages, page_num + 1, pages_text)

extract_with_pdfminer(found) == PdfminerPages(found.pages, 1, <<>>)

Returned(pages_text, called) ==
    [raised |-> FALSE, pages |-> pages_text, error |-> "", called |-> called]
Raised(error, called) ==
    [raised |-> TRUE, pages |-> <<>>, error |-> error, called |-> called]

\* the pdfminer half of extract_text_from_pdf; called: the backends invoked so far
TryPdfminer(lib, file, called) ==
    IF ~lib.pdfminer_extract_text
    THEN Raised("No PDF extraction library available", called)
    ELSE IF file.pdfminer.raises
         THEN Raised("Failed to extract text from PDF", Append(called, "pdfminer"))
         ELSE IF extract_with_pdfminer(file.pdfminer) # <<>>
              THEN Returned(extract_with_pdfminer(file.pdfminer), Append(called, "pdfminer"))
              ELSE Raised("No PDF extraction library available", Append(called, "pdfminer"))

\* variant: the primary result is kept only when no page of it was dropped
extract_text_from_pdf_all_pages(lib, file) ==
    IF lib.PyPDF2
    THEN IF ~file.pypdf2.raises /\ extract_with_pypdf2(file.pypdf2) # <<>>
            /\ Len(extract_with_pypdf2(file.pypdf2)) = Len(file.pypdf2.pages)
         THEN Returned(extract_with_pypdf2(file.pypdf2), <<"PyPDF2">>)
         ELSE TryPdfminer(lib, file, <<"PyPDF2">>)
    ELSE TryPdfminer(lib, file, <<>>)

extract_text_from_pdf(lib, file) ==
    IF lib.PyPDF2
    THEN IF ~file.pypdf2.raises /\ extract_with_pypdf2(file.pypdf2) # <<>>
         THEN Returned(extract_with_pypdf2(file.pypdf2), <<"PyPDF2">>)
         ELSE TryPdfminer(lib, file, <<"PyPDF2">>)
    ELSE TryPdfminer(lib, file, <<>>)

-----------------------------------------------------------------------------
(* process_pdf *)

\* variant: the page's chunks keep the indices chunk_text gave them
Renumber_local(page_chunks, global_chunk_index) == page_chunks

\* "Update global chunk indices": the page's chunks renumbered from global_chunk_index
Renumber(page_chunks, global_chunk_index) ==
    The({ [i \in 1..Len(chunks) |-> [chunks[i] EXCEPT !.chunk_index = g + i - 1]] :
          chunks \in {page_chunks}, g \in {global_chunk_index} })

\* the chunks one page contributes (before renumbering): preprocess, skip if
\* short, detect the section, chunk
PageChunks(self, page) ==
    The({ IF cleaned_text = <<>> \/ TextLen(Strip(cleaned_text)) < self.min_chunk_length
          THEN <<>>
          ELSE The({ chunk_text(self, cleaned_text, page.page_number, section) :
                     section \in {extract_sections(cleaned_text, page.page_number)} }) :
          cleaned_text \in {preprocess_text(page.text)} })

\* one iteration of "for page_text, page_number in pages_text" on the locals
\* [all_chunks, global_chunk_index]
ProcessPage(self, loc, page) ==
    The({ [all_chunks |-> loc.all_chunks \o page_chunks,
           global_chunk_index |-> loc.global_chunk_index + Len(page_chunks)] :
          page_chunks \in {Renumber(PageChunks(self, page), loc.global_chunk_index)} })

RECURSIVE ProcessPages(_, _, _, _)
ProcessPages(self, pages_text, i, loc) ==
    IF i > Len(pages_text) THEN loc
    ELSE The({ ProcessPages(self, pages_text, i + 1, next) :
               next \in {ProcessPage(self, loc, pages_text[i])} })

\* variant: the call leaves a tightened max_chunk_length on the instance
ProcessorAfterCall_tightened(self, all_chunks) ==
    [self EXCEPT !.max_chunk_length = self.min_chunk_length]

\* the attributes of self after process_pdf returns: the method assigns none
ProcessorAfterCall(self, all_chunks) == self

\* process_pdf run to its end: [raised, chunks, error]
process_pdf(self, lib, file) ==
    LET loc0 == [all_chunks |-> <<>>, global_chunk_index |-> 0]
    IN The({ IF got.raised THEN [raised |-> TRUE, chunks |-> <<>>, error |-> got.error]
             ELSE IF got.pages = <<>> THEN [raised |-> FALSE, chunks |-> <<>>, error |-> ""]
             ELSE [raised |-> FALSE, error |-> "",
                   chunks |-> ProcessPages(self, got.pages, 1, loc0).all_chunks] :
             got \in {extract_text_from_pdf(lib, file)} })

-----------------------------------------------------------------------------
(* Inputs *)

\* all sequences over S of length at most n
SeqsUpTo(S, n) == UNION {[1..k -> S] : k \in 0..n}

MaxChunkToks == 5
MaxNormToks == 5
MaxSectPieces == 3
MaxPages == 3
MaxExtractPages == 3
MaxRerunPages == 2
MaxTaskPages == 1

\* word lengths around the two thresholds
WordLens == {20, 49, 1000, 2001}
ChunkAlphabet == {Tok("low", n) : n \in WordLens} \cup {SP, DOT}
ChunkTexts == SeqsUpTo(ChunkAlphabet, MaxChunkToks)
SectionLabels == {None, <<Kw("Section"), SP, Tok("num", 1)>>}

NormAlphabet == {LP, RP, SP, HY, Tok("low", 1), Tok("num", 1), Tok("sym", 1)}
NormTexts == SeqsUpTo(NormAlphabet, MaxNormToks)

\* a section marker in three spellings, and filler
MarkerPieces ==
    UNION {{ <<Kw(k), SP, Tok("num", 1)>>,
             <<Kw(k), Tok("num", 1)>>,
             <<Kw(k), SP, Tok("num", 1), DOT, Tok("num", 1)>> } : k \in KeywordKinds}
SectPieces == MarkerPieces \cup {<<SP>>, <<Tok("low", 3)>>, <<DOT>>}

RECURSIVE Concat(_, _, _)
Concat(pieces, i, acc) ==
    IF i > Len(pieces) THEN acc ELSE Concat(pieces, i + 1, acc \o pieces[i])

SectTexts == {Concat(ps, 1, <<>>) : ps \in SeqsUpTo(SectPieces, MaxSectPieces)}

\* what a backend may find on a page: an exception, nothing, whitespace, text;
\* the two backends' texts differ so that a result tells its backend
Page(err, text) == [err |-> err, text |-> text]
PagesOf(textLen) == {Page(TRUE, <<>>), Page(FALSE, <<>>), Page(FALSE, <<SP>>),
                     Page(FALSE, <<Tok("low", textLen)>>)}
Finds(textLen) ==
    {[raises |-> TRUE, pages |-> <<>>]} \cup
    {[raises |-> FALSE, pages |-> ps] : ps \in SeqsUpTo(PagesOf(textLen), MaxExtractPages)}
ExtractFiles == [pypdf2 : Finds(60), pdfminer : Finds(61)]
Libs == [PyPDF2 : BOOLEAN, pdfminer_extract_text : BOOLEAN]

\* pages of the documents run through the whole pipeline: blank, too short,
\* one chunk under a section marker (irregular spacing, a character outside
\* the allow-list), two sentences that do not fit one chunk
ShortPage == <<Tok("low", 20)>>
SectionPage == <<Kw("Section"), Tok("sp", 2), Tok("num", 1), DOT, SP, Tok("low", 60), BANG>>
LongPage == <<Tok("low", 1500), DOT, SP, Tok("low", 1500), DOT>>
PipelinePages == {Page(FALSE, <<SP>>), Page(FALSE, ShortPage),
                  Page(FALSE, SectionPage), Page(FALSE, LongPage)}
PrimaryFinds(n) ==
    {[raises |-> TRUE, pages |-> <<>>]} \cup
    {[raises |-> FALSE, pages |-> ps] : ps \in SeqsUpTo(PipelinePages, n)}
SecondaryFinds ==
    {[raises |-> TRUE, pages |-> <<>>],
     [raises |-> FALSE, pages |-> <<Page(FALSE, <<SP>>)>>],
     [raises |-> FALSE, pages |-> <<Page(FALSE, <<Tok("low", 70)>>)>>]}
PipelineFiles(n) == [pypdf2 : PrimaryFinds(n), pdfminer : SecondaryFinds]
OtherFile == [pypdf2 |-> [raises |-> FALSE, pages |-> <<Page(FALSE, <<Tok("low", 80)>>)>>],
              pdfminer |-> [raises |-> TRUE, pages |-> <<>>]]

-----------------------------------------------------------------------------
(* The functions called once on an input: chunk_text, preprocess_text,        *)
(* extract_sections, extract_text_from_pdf                                   *)

Idle == [state |-> "idle", value |-> <<>>]
BothLibs == [PyPDF2 |-> TRUE, pdfminer_extract_text |-> TRUE]

NoPipeline ==
    /\ files = <<>> /\ processors = <<>> /\ inv = <<>>
    /\ documents = <<>> /\ chunkRows = {} /\ tasks = <<>>

InitChunk ==
    /\ mode = "chunk_text"
    /\ arg \in [text : ChunkTexts, page_number : {1, 2}, section : SectionLabels]
    /\ ret = Idle /\ libs = BothLibs /\ NoPipeline

CallChunkText ==
    /\ mode = "chunk_text" /\ ret.state = "idle"
    /\ ret' = [state |-> "returned",
               value |-> chunk_text(NewProcessor, arg.text, arg.page_number, arg.section)]
    /\ UNCHANGED <<mode, arg, libs, files, processors, inv, documents, chunkRows, tasks>>

SpecChunk == InitChunk /\ [][CallChunkText]_vars

InitNorm ==
    /\ mode = "preprocess_text"
    /\ arg \in NormTexts
    /\ ret = Idle /\ libs = BothLibs /\ NoPipeline

CallPreprocessText ==
    /\ mode = "preprocess_text" /\ ret.state = "idle"
    /\ ret' = [state |-> "returned", value |-> preprocess_text(arg)]
    /\ UNCHANGED <<mode, arg, libs, files, processors, inv, documents, chunkRows, tasks>>

SpecNorm == InitNorm /\ [][CallPreprocessText]_vars

InitSect ==
    /\ mode = "extract_sections"
    /\ arg \in SectTexts
    /\ ret = Idle /\ libs = BothLibs /\ NoPipeline

CallExtractSections ==
    /\ mode = "extract_sections" /\ ret.state = "idle"
    /\ ret' = [state |-> "returned", value |-> extract_sections(arg, 1)]
    /\ UNCHANGED <<mode, arg, libs, files, processors, inv, documents, chunkRows, tasks>>

SpecSect == InitSect /\ [][CallExtractSections]_vars

InitExtract ==
    /\ mode = "extract_text_from_pdf"
    /\ arg \in ExtractFiles
    /\ libs \in Libs
    /\ ret = Idle /\ NoPipeline

CallExtractText ==
    /\ mode = "extract_text_from_pdf" /\ ret.state = "idle"
    /\ ret' = [state |-> "returned", value |-> extract_text_from_pdf(libs, arg)]
    /\ UNCHANGED <<mode, arg, libs, files, processors, inv, documents, chunkRows, tasks>>

SpecExtract == InitExtract /\ [][CallExtractText]_vars

-----------------------------------------------------------------------------
(* Properties of the functions called once *)

Called(m) == mode = m /\ ret.state = "returned"

\* C1: every chunk chunk_text emits has min_chunk_length <= len(text) <=
\* max_chunk_length, on every emission path, also when one word without
\* whitespace is longer than max_chunk_length.
C1_LengthInvariant ==
    Called("chunk_text") =>
        \A i \in DOMAIN ret.value :
            /\ min_chunk_length <= TextLen(ret.value[i].text)
            /\ TextLen(ret.value[i].text) <= max_chunk_length

\* text has a parenthesised run of [a-z0-9] with whitespace inside the parentheses
HasSpacedEnumerator(text) ==
    \E i \in DOMAIN text :
        LET a == SkipWhile(text, i + 1, SpaceKinds)
            b == SkipWhile(text, a, LowerAlnumKinds)
            c == SkipWhile(text, b, SpaceKinds)
        IN /\ text[i] = LP
           /\ b > a
           /\ c <= Len(text) /\ text[c] = RP
           /\ (a > i + 1 \/ c > b)

\* C9: the output of preprocess_text never contains a parenthesised lowercase
\* alphanumeric enumerator with spaces inside the parentheses: "( a )" has
\* become "(a)".
C9_EnumeratorsTight ==
    Called("preprocess_text") => ~HasSpacedEnumerator(ret.value)

\* the priority order the section claim states: Section, section sign, Article,
\* Chapter, Part; only the section sign may touch its number
C8_Order ==
    << [kinds |-> {"Section", "section"}, minSpace |-> 1],
       [kinds |-> {"SectionSign"}, minSpace |-> 0],
       [kinds |-> {"Article"}, minSpace |-> 1],
       [kinds |-> {"Chapter"}, minSpace |-> 1],
       [kinds |-> {"Part"}, minSpace |-> 1] >>

C8_Matches(text, p) ==
    {i \in DOMAIN text : MarkerEnd(text, i, C8_Order[p].kinds, C8_Order[p].minSpace) # 0}

\* C8: extract_sections returns the whole text of the leftmost match of the
\* first pattern, in the order Section, section sign, Article, Chapter, Part,
\* that matches anywhere, wherever lower-priority markers stand; one label, and
\* None only when no pattern matches.
C8_SectionPriority ==
    Called("extract_sections") =>
        LET hit == {p \in DOMAIN C8_Order : C8_Matches(arg, p) # {}}
        IN IF hit = {} THEN ret.value = None
           ELSE LET p == CHOOSE q \in hit : \A o \in hit : q <= o
                    i == CHOOSE s \in C8_Matches(arg, p) :
                            \A o \in C8_Matches(arg, p) : s <= o
                    e == MarkerEnd(arg, i, C8_Order[p].kinds, C8_Order[p].minSpace)
                IN ret.value = SubSeq(arg, i, e - 1)

\* "Article 4 Section 4.1" has returned "Section 4.1"
C8_Witness ==
    /\ Called("extract_sections")
    /\ arg = <<Kw("Article"), SP, Tok("num", 1), SP,
               Kw("Section"), SP, Tok("num", 1), DOT, Tok("num", 1)>>
    /\ ret.value = <<Kw("Section"), SP, Tok("num", 1), DOT, Tok("num", 1)>>

\* the page has text that is not whitespace and its extraction did not raise
GoodPage(page) == ~page.err /\ \E i \in DOMAIN page.text : ~IsSpace(page.text[i])
GoodPages(found) == {n \in DOMAIN found.pages : GoodPage(found.pages[n])}

\* pages_text is exactly the good pages of found, in order, under their positions
ExactlyGoodPages(pages_text, found) ==
    /\ \A j \in DOMAIN pages_text :
          /\ pages_text[j].page_number \in GoodPages(found)
          /\ pages_text[j].text = found.pages[pages_text[j].page_number].text
    /\ \A j, k \in DOMAIN pages_text :
          j < k => pages_text[j].page_number < pages_text[k].page_number
    /\ \A n \in GoodPages(found) : \E j \in DOMAIN pages_text : pages_text[j].page_number = n

InSeq(x, sq) == \E i \in DOMAIN sq : sq[i] = x

PrimaryYields(lib, file) ==
    lib.PyPDF2 /\ ~file.pypdf2.raises /\ GoodPages(file.pypdf2) # {}

\* C6: when PyPDF2 is available and yields at least one non-empty page, the
\* result is exactly its page list and pdfminer is never invoked, even if other
\* pages were empty or failed; pdfminer is invoked only when PyPDF2 is
\* unavailable, raised or yielded no page.
C6_FallbackOrder ==
    Called("extract_text_from_pdf") =>
        /\ PrimaryYields(libs, arg) =>
              /\ ~ret.value.raised
              /\ ExactlyGoodPages(ret.value.pages, arg.pypdf2)
              /\ ret.value.called = <<"PyPDF2">>
        /\ InSeq("pdfminer", ret.value.called) => ~PrimaryYields(libs, arg)

\* PyPDF2 gave a result although one of its pages failed and one was blank
C6_Witness ==
    /\ Called("extract_text_from_pdf")
    /\ PrimaryYields(libs, arg)
    /\ \E n \in DOMAIN arg.pypdf2.pages : arg.pypdf2.pages[n].err
    /\ \E n \in DOMAIN arg.pypdf2.pages :
          ~arg.pypdf2.pages[n].err /\ ~GoodPage(arg.pypdf2.pages[n])
    /\ libs.pdfminer_extract_text /\ GoodPages(arg.pdfminer) # {}
    /\ ret.value.called = <<"PyPDF2">>

\* the backend whose list extract_text_from_pdf returned
UsedBackend(file, called) ==
    IF called[Len(called)] = "PyPDF2" THEN file.pypdf2 ELSE file.pdfminer

\* C7: for either backend and any per-page outcomes, the returned list is
\* exactly the pages with non-whitespace text, in document order, each under its
\* true 1-based position: strictly increasing, blank pages dropped, a failing
\* page skipped alone, no later page renumbered.
C7_PageNumbering ==
    (Called("extract_text_from_pdf") /\ ~ret.value.raised) =>
        ExactlyGoodPages(ret.value.pages, UsedBackend(arg, ret.value.called))

\* a failing first page and a blank second page are skipped and the third keeps
\* its number, with PyPDF2
C7_Witness ==
    /\ Called("extract_text_from_pdf") /\ ~ret.value.raised
    /\ ret.value.called = <<"PyPDF2">>
    /\ Len(arg.pypdf2.pages) = 3
    /\ arg.pypdf2.pages[1].err
    /\ ~arg.pypdf2.pages[2].err /\ ~GoodPage(arg.pypdf2.pages[2])
    /\ Len(ret.value.pages) = 1 /\ ret.value.pages[1].page_number = 3

-----------------------------------------------------------------------------
(* process_pdf invocations, one page at a time, on shared or separate instances *)

\* a call still to be made: processors[p].process_pdf(f)
IdleCall(f, p) == [pc |-> "idle", file |-> f, self |-> p, pages_text |-> <<>>, pos |-> 0,
                   all_chunks |-> <<>>, global_chunk_index |-> 0, error |-> ""]

InitPdf ==
    /\ mode = "process_pdf"
    /\ arg = <<>> /\ ret = Idle
    /\ libs \in Libs
    /\ files \in [{"a.pdf"} -> PipelineFiles(MaxPages)]
    /\ processors = [p \in {"p1"} |-> NewProcessor]
    /\ inv = [c \in {"call1"} |-> IdleCall("a.pdf", "p1")]
    /\ documents = <<>> /\ chunkRows = {} /\ tasks = <<>>

InitRerun ==
    /\ mode = "process_pdf"
    /\ arg = <<>> /\ ret = Idle
    /\ libs = BothLibs
    /\ files \in {[x \in {"a.pdf", "b.pdf"} |-> IF x = "a.pdf" THEN fa ELSE OtherFile] :
                     fa \in PipelineFiles(MaxRerunPages)}
    /\ processors = [p \in {"p1", "p2"} |-> NewProcessor]
    \* a.pdf is processed twice, on one instance or on two, and b.pdf once
    /\ \E p2, p3 \in {"p1", "p2"} :
          inv = [c \in {"call1", "call2", "call3"} |->
                    CASE c = "call1" -> IdleCall("a.pdf", "p1")
                      [] c = "call2" -> IdleCall("a.pdf", p2)
                      [] c = "call3" -> IdleCall("b.pdf", p3)]
    /\ documents = <<>> /\ chunkRows = {} /\ tasks = <<>>

\* process_pdf up to the page loop: extraction, and the early return
Call(c) ==
    /\ mode = "process_pdf" /\ inv[c].pc = "idle"
    /\ \E got \in {extract_text_from_pdf(libs, files[inv[c].file])} :
         inv' = [inv EXCEPT ![c] =
                    IF got.raised THEN [@ EXCEPT !.pc = "raised", !.error = got.error]
                    ELSE IF got.pages = <<>> THEN [@ EXCEPT !.pc = "returned"]
                    ELSE [@ EXCEPT !.pc = "pages", !.pages_text = got.pages, !.pos = 1]]
    /\ UNCHANGED <<mode, arg, ret, libs, files, processors, documents, chunkRows, tasks>>

\* one iteration of the page loop
PageStep(c) ==
    /\ mode = "process_pdf" /\ inv[c].pc = "pages" /\ inv[c].pos <= Len(inv[c].pages_text)
    /\ \E loc \in {ProcessPage(processors[inv[c].self],
                                [all_chunks |-> inv[c].all_chunks,
                                 global_chunk_index |-> inv[c].global_chunk_index],
                                inv[c].pages_text[inv[c].pos])} :
         inv' = [inv EXCEPT ![c].all_chunks = loc.all_chunks,
                            ![c].global_chunk_index = loc.global_chunk_index,
                            ![c].pos = @ + 1]
    /\ UNCHANGED <<mode, arg, ret, libs, files, processors, documents, chunkRows, tasks>>

\* return all_chunks
Return(c) ==
    /\ mode = "process_pdf" /\ inv[c].pc = "pages" /\ inv[c].pos > Len(inv[c].pages_text)
    /\ inv' = [inv EXCEPT ![c].pc = "returned"]
    /\ processors' = [processors EXCEPT ![inv[c].self] =
                         ProcessorAfterCall(@, inv[c].all_chunks)]
    /\ UNCHANGED <<mode, arg, ret, libs, files, documents, chunkRows, tasks>>

NextPdf ==
    \E c \in DOMAIN inv :
        \/ Call(c)
        \/ PageStep(c)
        \/ Return(c)

SpecPdf == InitPdf /\ [][NextPdf]_vars
SpecRerun == InitRerun /\ [][NextPdf]_vars

Finished(c) == inv[c].pc \in {"returned", "raised"}

\* C2: the chunk_index values of the list process_pdf returns are exactly
\* 0, 1, ..., N-1 in emission order, whatever pages were skipped or gave no
\* chunk; the per-page indices of chunk_text do not survive.
C2_IndexInvariant ==
    \A c \in DOMAIN inv :
        inv[c].pc = "returned" =>
            \A i \in DOMAIN inv[c].all_chunks : inv[c].all_chunks[i].chunk_index = i - 1

\* a returned list of at least three chunks from two pages, with a too-short
\* page between them
C2_Witness ==
    \E c \in DOMAIN inv :
        /\ inv[c].pc = "returned"
        /\ Len(inv[c].all_chunks) >= 3
        /\ Len(inv[c].pages_text) = 3
        /\ inv[c].pages_text[2].text = ShortPage
        /\ inv[c].all_chunks[1].page_number = 1
        /\ inv[c].all_chunks[Len(inv[c].all_chunks)].page_number = 3

\* no page of the file has text other than whitespace, for either backend, and
\* nothing raises
AllBlank(file) ==
    /\ ~file.pypdf2.raises /\ ~file.pdfminer.raises
    /\ file.pypdf2.pages # <<>> /\ file.pdfminer.pages # <<>>
    /\ \A n \in DOMAIN file.pypdf2.pages :
          ~file.pypdf2.pages[n].err /\ ~GoodPage(file.pypdf2.pages[n])
    /\ \A n \in DOMAIN file.pdfminer.pages :
          ~file.pdfminer.pages[n].err /\ ~GoodPage(file.pdfminer.pages[n])

\* C3: process_pdf on a PDF whose pages all hold only whitespace, with both
\* backends installed and neither raising, returns an empty chunk sequence and
\* raises no error.
C3_DegenerateEmpty ==
    \A c \in DOMAIN inv :
        (Finished(c) /\ libs = BothLibs /\ AllBlank(files[inv[c].file])) =>
            (inv[c].pc = "returned" /\ inv[c].all_chunks = <<>>)

\* C10: two finished process_pdf invocations on the same file have identical
\* outcomes (texts, page numbers, sections, chunk indices), on the same or on
\* different instances and however they interleave with each other and with
\* invocations on other documents; no invocation leaves anything behind on the
\* instance.
C10_Idempotent ==
    /\ \A c1, c2 \in DOMAIN inv :
          (Finished(c1) /\ Finished(c2) /\ inv[c1].file = inv[c2].file) =>
              /\ inv[c1].pc = inv[c2].pc
              /\ inv[c1].all_chunks = inv[c2].all_chunks
              /\ inv[c1].error = inv[c2].error
    /\ \A p \in DOMAIN processors : processors[p] = NewProcessor

\* two returned invocations of one file on one instance, with chunks, and a
\* third invocation on another document
C10_Witness ==
    \E c1, c2, c3 \in DOMAIN inv :
        /\ c1 # c2
        /\ inv[c1].pc = "returned" /\ inv[c2].pc = "returned"
        /\ inv[c1].file = inv[c2].file /\ inv[c1].self = inv[c2].self
        /\ Len(inv[c1].all_chunks) >= 2
        /\ inv[c3].pc = "returned" /\ inv[c3].file # inv[c1].file
        /\ inv[c3].self = inv[c1].self

-----------------------------------------------------------------------------
(* DocumentUploadView.post and process_document_task *)

max_retries == 3
countdown == 60

DocIds == {"d1", "d2"}

NULL == "NULL"
NoRow == [exists |-> FALSE, status |-> "", chunks_indexed |-> 0, error_message |-> NULL]
\* Document.objects.create(..., status='pending') with the model's defaults
NewRow == [exists |-> TRUE, status |-> "pending", chunks_indexed |-> 0,
           error_message |-> NULL]

NoTask == [pc |-> "none", retries |-> 0, countdown |-> 0, attempts |-> 0,
           document |-> NoRow, chunks_data |-> <<>>, chunks_created |-> 0, exc |-> ""]

\* DocumentChunk.objects.create(document=..., chunk_text=..., ...)
ChunkRow(d, chunk_data) ==
    [document |-> d, chunk_text |-> chunk_data.text, chunk_index |-> chunk_data.chunk_index,
     page_number |-> chunk_data.page_number, section |-> chunk_data.section]

\* unique_together = ['document', 'chunk_index']
Duplicate(rows, row) ==
    \E r \in rows : r.document = row.document /\ r.chunk_index = row.chunk_index

\* variant: one retry more than max_retries
MayRetry_one_more(retries) == retries <= max_retries

\* self.retry schedules another run while request.retries < max_retries, and
\* raises the exception for good otherwise
MayRetry(retries) == retries < max_retries

\* variant: an empty result is never an error
NoText_ignored(chunks_data) == FALSE

\* "if not chunks_data"
NoText(chunks_data) == chunks_data = <<>>

\* the task after "except Exception as exc": self.retry(exc=exc, countdown=60)
AfterFailure(task, exc) ==
    IF MayRetry(task.retries)
    THEN [task EXCEPT !.pc = "queued", !.retries = @ + 1, !.countdown = countdown,
                      !.exc = exc, !.chunks_data = <<>>, !.chunks_created = 0]
    ELSE [task EXCEPT !.pc = "gave_up", !.exc = exc,
                      !.chunks_data = <<>>, !.chunks_created = 0]

\* the row after the handler's get / status = 'failed' / error_message / save
FailedRow(row, exc) ==
    IF row.exists THEN [row EXCEPT !.status = "failed", !.error_message = exc] ELSE row

InitTask ==
    /\ mode = "task"
    /\ arg = <<>> /\ ret = Idle
    /\ libs = BothLibs
    /\ files = [d \in DocIds |-> OtherFile]
    /\ processors = <<>> /\ inv = <<>>
    /\ documents = [d \in DocIds |-> NoRow]
    /\ chunkRows = {}
    /\ tasks = [d \in DocIds |-> NoTask]

\* the files uploaded: any file as the first document, one fixed file as the other
UploadFiles(d) == IF d = "d1" THEN PipelineFiles(MaxTaskPages) ELSE {OtherFile}

\* post() with a valid request: the row is created 'pending' and the task queued
\* (a request without a file, with another extension or too large changes nothing)
Upload(d, file) ==
    /\ mode = "task" /\ ~documents[d].exists /\ tasks[d].pc = "none"
    /\ documents' = [documents EXCEPT ![d] = NewRow]
    /\ files' = [files EXCEPT ![d] = file]
    /\ tasks' = [tasks EXCEPT ![d] = [NoTask EXCEPT !.pc = "queued"]]
    /\ UNCHANGED <<mode, arg, ret, libs, processors, inv, chunkRows>>

\* a run begins: Document.objects.get, status = 'processing', save
TaskStart(d) ==
    /\ mode = "task" /\ tasks[d].pc = "queued"
    /\ IF documents[d].exists
       THEN /\ tasks' = [tasks EXCEPT ![d].pc = "started", ![d].attempts = @ + 1,
                                      ![d].document =
                                          [documents[d] EXCEPT !.status = "processing"]]
            /\ documents' = [documents EXCEPT ![d].status = "processing"]
       ELSE \* Document.DoesNotExist is raised again and nothing is retried
            /\ tasks' = [tasks EXCEPT ![d].pc = "rejected", ![d].attempts = @ + 1]
            /\ UNCHANGED documents
    /\ UNCHANGED <<mode, arg, ret, libs, files, processors, inv, chunkRows>>

\* os.path.exists, PDFProcessor().process_pdf, "if not chunks_data"; an
\* exception runs the handler at once
\* PDFProcessor().process_pdf(pdf_path) on a worker with both libraries, for
\* each file a document can hold (a table: the call depends on the file alone)
TaskResults ==
    [file \in UNION {UploadFiles(d) : d \in DocIds} |->
        process_pdf(NewProcessor, BothLibs, file)] @@ <<>>

TaskProcess(d, exists) ==
    /\ mode = "task" /\ tasks[d].pc = "started" /\ libs = BothLibs
    /\ \E out \in {TaskResults[files[d]]} :
         LET exc == IF ~exists THEN "PDF file not found"
                    ELSE IF out.raised THEN out.error
                    ELSE IF NoText(out.chunks) THEN "No text could be extracted from the PDF"
                    ELSE ""
         IN IF exc = ""
            THEN /\ tasks' = [tasks EXCEPT ![d].pc = "saving", ![d].chunks_data = out.chunks,
                                           ![d].chunks_created = 0]
                 /\ UNCHANGED documents
            ELSE /\ tasks' = [tasks EXCEPT ![d] = AfterFailure(@, exc)]
                 /\ documents' = [documents EXCEPT ![d] = FailedRow(@, exc)]
    /\ UNCHANGED <<mode, arg, ret, libs, files, processors, inv, chunkRows>>

\* one DocumentChunk.objects.create of the loop
TaskCreateChunk(d) ==
    /\ mode = "task" /\ tasks[d].pc = "saving"
    /\ tasks[d].chunks_created < Len(tasks[d].chunks_data)
    /\ LET row == ChunkRow(d, tasks[d].chunks_data[tasks[d].chunks_created + 1])
       IN IF Duplicate(chunkRows, row)
          THEN /\ tasks' = [tasks EXCEPT ![d] = AfterFailure(@, "IntegrityError")]
               /\ documents' = [documents EXCEPT ![d] = FailedRow(@, "IntegrityError")]
               /\ UNCHANGED chunkRows
          ELSE /\ chunkRows' = chunkRows \cup {row}
               /\ tasks' = [tasks EXCEPT ![d].chunks_created = @ + 1]
               /\ UNCHANGED documents
    /\ UNCHANGED <<mode, arg, ret, libs, files, processors, inv>>

\* status = 'completed', chunks_indexed = chunks_created, save of the instance
\* loaded when the run began
TaskComplete(d) ==
    /\ mode = "task" /\ tasks[d].pc = "saving"
    /\ tasks[d].chunks_created = Len(tasks[d].chunks_data)
    /\ LET saved == [tasks[d].document EXCEPT !.status = "completed",
                                              !.chunks_indexed = tasks[d].chunks_created]
       IN /\ documents' = [documents EXCEPT ![d] = saved]
          /\ tasks' = [tasks EXCEPT ![d].pc = "succeeded", ![d].document = saved]
    /\ UNCHANGED <<mode, arg, ret, libs, files, processors, inv, chunkRows>>

TaskStep(d) ==
    \/ TaskStart(d)
    \/ \E exists \in BOOLEAN : TaskProcess(d, exists)
    \/ TaskCreateChunk(d)
    \/ TaskComplete(d)

NextTask ==
    \E d \in DocIds :
        \/ \E file \in UploadFiles(d) : Upload(d, file)
        \/ TaskStep(d)

SpecTask == InitTask /\ [][NextTask]_vars

\* the worker runs every queued task and every run goes on to its end
FairSpecTask == SpecTask /\ \A d \in DocIds : WF_vars(TaskStep(d))

\* C4: a document stored as 'completed' comes from a process_pdf result that
\* is not empty, every chunk of that result is a DocumentChunk row of the
\* document, and chunks_indexed is the length of the result; an empty result is
\* never stored as 'completed' with 0 chunks.
C4_CompletedContract ==
    \A d \in DocIds :
        documents[d].status = "completed" =>
            \E out \in {process_pdf(NewProcessor, libs, files[d])} :
                /\ ~out.raised
                /\ out.chunks # <<>>
                /\ documents[d].chunks_indexed = Len(out.chunks)
                /\ \A i \in DOMAIN out.chunks : ChunkRow(d, out.chunks[i]) \in chunkRows

\* a document completed with two chunks on a retry, after a failed run
C4_Witness ==
    \E d \in DocIds :
        /\ documents[d].status = "completed"
        /\ documents[d].chunks_indexed >= 2
        /\ tasks[d].retries >= 1

Stopped(d) == tasks[d].pc \in {"succeeded", "gave_up"}

C5_State ==
    \A d \in DocIds :
        /\ tasks[d].retries <= 3 /\ tasks[d].attempts <= 4
        /\ (tasks[d].pc = "queued" /\ tasks[d].retries > 0) =>
              /\ tasks[d].countdown = 60
              /\ documents[d].status = "failed"
              /\ documents[d].error_message = tasks[d].exc
        /\ tasks[d].pc = "gave_up" =>
              /\ tasks[d].attempts = 4
              /\ documents[d].status = "failed"
              /\ documents[d].error_message = tasks[d].exc
        /\ Stopped(d) => documents[d].status \in {"completed", "failed"}

C5_Step ==
    \A d \in DocIds :
        \* a run that ends in an exception stores 'failed' with the error text
        \* and asks for a retry in 60 seconds
        /\ (tasks[d].pc \in {"started", "saving"} /\ tasks'[d].pc \in {"queued", "gave_up"}) =>
              /\ documents'[d].status = "failed"
              /\ documents'[d].error_message = tasks'[d].exc
              /\ tasks'[d].exc # ""
              /\ tasks'[d].pc = "queued" =>
                    (tasks'[d].countdown = 60 /\ tasks'[d].retries = tasks[d].retries + 1)
        \* a stopped task runs no more and its document keeps its status
        /\ Stopped(d) => (tasks'[d] = tasks[d] /\ documents'[d] = documents[d])

-----------------------------------------------------------------------------
(* chunk_text statement by statement: inv holds the locals of the one call *)

\* the locals before the first statement
NoLocals ==
    [pc |-> "begin", sentences |-> <<>>, i |-> 1, chunks |-> <<>>,
     current_chunk |-> <<>>, chunk_index |-> 0, words |-> <<>>, j |-> 1,
     temp_chunk |-> <<>>]

InitLoop ==
    /\ mode = "chunk_text_loop"
    /\ arg \in [text : ChunkTexts, page_number : {1}, section : {None}]
    /\ ret = Idle /\ libs = BothLibs
    /\ files = <<>> /\ processors = <<>> /\ documents = <<>>
    /\ chunkRows = {} /\ tasks = <<>>
    /\ inv = NoLocals

\* the early return, or re.split and the initial locals
Enter ==
    /\ mode = "chunk_text_loop" /\ inv.pc = "begin"
    /\ IF arg.text = <<>> \/ TextLen(Strip(arg.text)) < NewProcessor.min_chunk_length
       THEN /\ inv' = [inv EXCEPT !.pc = "done"]
            /\ ret' = [state |-> "returned", value |-> <<>>]
       ELSE /\ inv' = [inv EXCEPT !.pc = "sentence",
                                  !.sentences = SplitSentences(arg.text, 1, <<>>, <<>>)]
            /\ UNCHANGED ret
    /\ UNCHANGED <<mode, arg, libs, files, processors, documents, chunkRows, tasks>>

\* one iteration of "for sentence in sentences", up to the word-level fallback
TakeSentence ==
    /\ mode = "chunk_text_loop" /\ inv.pc = "sentence" /\ inv.i <= Len(inv.sentences)
    /\ \E sentence \in {Strip(inv.sentences[inv.i])} :
         IF sentence = <<>> THEN inv' = [inv EXCEPT !.i = @ + 1]
         ELSE \E st1 \in {AddSentence(NewProcessor, inv, sentence, arg.page_number, arg.section)} :
                IF TextLen(st1.current_chunk) > NewProcessor.max_chunk_length
                THEN inv' = [st1 EXCEPT !.pc = "word", !.j = 1, !.temp_chunk = <<>>,
                                        !.words = SplitWords(st1.current_chunk, 1, <<>>)]
                ELSE inv' = [st1 EXCEPT !.i = @ + 1]
    /\ UNCHANGED <<mode, arg, ret, libs, files, processors, documents, chunkRows, tasks>>

\* one iteration of "for word in words"
TakeWord ==
    /\ mode = "chunk_text_loop" /\ inv.pc = "word" /\ inv.j <= Len(inv.words)
    /\ \E word \in {inv.words[inv.j]} :
         IF Overflows(NewProcessor, inv.temp_chunk, word)
         THEN inv' = [Flush(NewProcessor, inv, inv.temp_chunk, arg.page_number, arg.section)
                         EXCEPT !.temp_chunk = word, !.j = @ + 1]
         ELSE inv' = [inv EXCEPT !.j = @ + 1,
                                 !.temp_chunk = IF @ # <<>> THEN @ \o <<SP>> \o word ELSE word]
    /\ UNCHANGED <<mode, arg, ret, libs, files, processors, documents, chunkRows, tasks>>

\* current_chunk = temp_chunk, and on to the next sentence
EndWords ==
    /\ mode = "chunk_text_loop" /\ inv.pc = "word" /\ inv.j > Len(inv.words)
    /\ inv' = [inv EXCEPT !.pc = "sentence", !.current_chunk = inv.temp_chunk, !.i = @ + 1]
    /\ UNCHANGED <<mode, arg, ret, libs, files, processors, documents, chunkRows, tasks>>

\* "Add remaining chunk" and return chunks
Finish ==
    /\ mode = "chunk_text_loop" /\ inv.pc = "sentence" /\ inv.i > Len(inv.sentences)
    /\ \E st \in {IF inv.current_chunk # <<>>
                  THEN Flush(NewProcessor, inv, inv.current_chunk, arg.page_number, arg.section)
                  ELSE inv} :
         /\ inv' = [st EXCEPT !.pc = "done", !.current_chunk = <<>>]
         /\ ret' = [state |-> "returned", value |-> st.chunks]
    /\ UNCHANGED <<mode, arg, libs, files, processors, documents, chunkRows, tasks>>

NextLoop == Enter \/ TakeSentence \/ TakeWord \/ EndWords \/ Finish

SpecLoop == InitLoop /\ [][NextLoop]_vars

-----------------------------------------------------------------------------
(* chunk_text as a packing of the words of its input *)

\* text.split() of a whole text
Words(text) == SplitWords(text, 1, <<>>)

RECURSIVE WordsFrom(_, _)
\* the words of sentences[i], sentences[i + 1], ...
WordsFrom(sentences, i) ==
    IF i > Len(sentences) THEN <<>>
    ELSE Words(sentences[i]) \o WordsFrom(sentences, i + 1)

\* the buffer the next flush would emit: temp_chunk inside the word-level
\* fallback, current_chunk in the sentence loop
Buffer(l) ==
    CASE l.pc = "word" -> l.temp_chunk
      [] l.pc = "sentence" -> l.current_chunk
      [] OTHER -> <<>>

\* the words of the input that are in no chunk yet: those in the buffer, then
\* those not yet read
Pending(l, text) ==
    Words(Buffer(l)) \o
       CASE l.pc = "begin" -> Words(text)
         [] l.pc = "sentence" -> WordsFrom(l.sentences, l.i)
         [] l.pc = "word" -> SubSeq(l.words, l.j, Len(l.words)) \o WordsFrom(l.sentences, l.i + 1)
         [] OTHER -> <<>>

RECURSIVE Packed(_, _, _)
\* words is: some dropped words, each shorter than min_chunk_length, then the
\* words of chunks[i], and so on to the last chunk and the last dropped words
Packed(words, chunks, i) ==
    \E k \in 0..Len(words) :
        /\ \A d \in 1..k : TextLen(words[d]) < min_chunk_length
        /\ IF i > Len(chunks) THEN k = Len(words)
           ELSE LET kept == Words(chunks[i].text)
                    n == k + Len(kept)
                IN /\ n <= Len(words)
                   /\ SubSeq(words, k + 1, n) = kept
                   /\ Packed(SubSeq(words, n + 1, Len(words)), chunks, i + 1)

\* what the statement-by-statement call returns is what chunk_text returns, and
\* it is the input's words with short words dropped between whole chunks
C11_Returned ==
    Called("chunk_text_loop") =>
        /\ ret.value = chunk_text(NewProcessor, arg.text, arg.page_number, arg.section)
        /\ Packed(Words(arg.text), ret.value, 1)

\* a step either leaves the chunks and the pending words alone, or takes the
\* whole buffer off the front of the pending words and emits it as one chunk or
\* drops it because its trimmed length is below min_chunk_length; the early
\* return drops a text that is shorter than min_chunk_length
C11_Step ==
    LET buf == Buffer(inv)
        before == Pending(inv, arg.text)
        after == Pending(inv', arg.text)
    IN \/ inv'.chunks = inv.chunks /\ after = before
       \/ /\ after = SubSeq(before, Len(Words(buf)) + 1, Len(before))
          /\ \/ /\ inv'.chunks = inv.chunks
                /\ TextLen(Strip(buf)) < min_chunk_length
             \/ /\ Len(inv'.chunks) = Len(inv.chunks) + 1
                /\ SubSeq(inv'.chunks, 1, Len(inv.chunks)) = inv.chunks
                /\ Words(inv'.chunks[Len(inv'.chunks)].text) = Words(buf)
       \/ /\ inv.pc = "begin" /\ inv'.pc = "done" /\ inv'.chunks = <<>>
          /\ TextLen(Strip(arg.text)) < min_chunk_length

\* C11: the words of the chunks chunk_text returns, in emission order, are the
\* words of the input with whole dropped buffers removed: no word is repeated,
\* reordered or split, and the only words missing are those of a buffer whose
\* trimmed length was below min_chunk_length when it would have been flushed
\* (before an overflowing sentence, inside the word-level fallback, at the end).
C11_Packing == [](C11_Returned) /\ [][C11_Step]_vars

\* two chunks returned and a buffer dropped between them
C11_Witness ==
    /\ Called("chunk_text_loop")
    /\ Len(ret.value) = 2
    /\ Len(Words(arg.text)) > Len(Words(ret.value[1].text)) + Len(Words(ret.value[2].text))

-----------------------------------------------------------------------------
(* the stored error text of a document *)

\* C12: in every reachable state of process_document_task, also after failed
\* runs followed by a successful retry, a document whose stored status is
\* 'completed' has a null error_message.
C12_NoStaleError ==
    \A d \in DocIds :
        documents[d].status = "completed" => documents[d].error_message = NULL

-----------------------------------------------------------------------------
(* process_pdf on pages that carry section-sign markers *)

MaxSignPieces == 3

\* "§ 12", "§12.1", markers of other patterns, and filler long enough to chunk
SignPieces ==
    {<<Kw("SectionSign"), SP, Tok("num", 2)>>,
     <<Kw("SectionSign"), Tok("num", 2), DOT, Tok("num", 1)>>,
     <<Kw("Article"), SP, Tok("num", 1)>>,
     <<Kw("Section"), SP, Tok("num", 1)>>,
     <<Tok("low", 60)>>, <<SP>>, <<DOT>>}
SignTexts == {Concat(ps, 1, <<>>) : ps \in SeqsUpTo(SignPieces, MaxSignPieces)}

\* a page whose only marker is "§ 12"
SignOnlyPage == <<Tok("low", 60), SP, Kw("SectionSign"), SP, Tok("num", 2), DOT>>

\* one call on a two-page file: any page, then SignOnlyPage
InitSign ==
    /\ mode = "process_pdf"
    /\ arg = <<>> /\ ret = Idle
    /\ libs = BothLibs
    /\ files \in {[x \in {"a.pdf"} |->
                     [pypdf2 |-> [raises |-> FALSE,
                                  pages |-> <<Page(FALSE, t), Page(FALSE, SignOnlyPage)>>],
                      pdfminer |-> [raises |-> TRUE, pages |-> <<>>]]] : t \in SignTexts}
    /\ processors = [p \in {"p1"} |-> NewProcessor]
    /\ inv = [c \in {"call1"} |-> IdleCall("a.pdf", "p1")]
    /\ documents = <<>> /\ chunkRows = {} /\ tasks = <<>>

SpecSign == InitSign /\ [][NextPdf]_vars

HasKind(text, K) == \E i \in DOMAIN text : text[i].k \in K

\* the extracted text of the page a chunk comes from
PageTextOf(c, ch) ==
    The({ inv[c].pages_text[p].text : p \in { q \in DOMAIN inv[c].pages_text :
                                               inv[c].pages_text[q].page_number = ch.page_number } })

\* C13: no chunk process_pdf returns carries a section label that begins with
\* the section sign, because preprocess_text has turned every section sign into
\* a space before extract_sections runs; a chunk of a page whose only marker is
\* "§ 12" has no section, and a label, if there is one, begins with a keyword of
\* another pattern that stands on the page.
C13_NoSectionSign ==
    \A c \in DOMAIN inv :
        \A i \in DOMAIN inv[c].all_chunks :
            LET ch == inv[c].all_chunks[i]
                page == PageTextOf(c, ch)
            IN /\ ch.section # None =>
                     /\ ch.section[1].k \in KeywordKinds \ {"SectionSign"}
                     /\ HasKind(page, {ch.section[1].k})
               /\ ~HasKind(page, KeywordKinds \ {"SectionSign"}) => ch.section = None

\* a returned call with a chunk without section from a page that begins with
\* "§ 12", and a chunk labelled by the Article marker of a page that has a
\* section sign too
C13_Witness ==
    \E c \in DOMAIN inv :
        /\ inv[c].pc = "returned"
        /\ \E i \in DOMAIN inv[c].all_chunks :
              /\ inv[c].all_chunks[i].page_number = 2
              /\ inv[c].all_chunks[i].section = None
        /\ \E i \in DOMAIN inv[c].all_chunks :
              LET ch == inv[c].all_chunks[i]
              IN /\ ch.page_number = 1
                 /\ HasKind(PageTextOf(c, ch), {"SectionSign"})
                 /\ ch.section # None /\ ch.section[1].k = "Article"

====
